---- MODULE Spec2Model ----
(***************************************************************************)
(* Render callback registration, ownership and trampoline of               *)
(* coreaudio-rs (src/audio_unit/render_callback.rs).                       *)
(*                                                                         *)
(* Two threads are modelled: the caller thread, which owns the AudioUnit   *)
(* (&mut self) and runs set_render_callback / free_render_callback, and    *)
(* the engine's render thread, which invokes input_proc with the installed *)
(* inputProcRefCon.  Callback boxes are numbered 1..MaxBoxes; 0 is the     *)
(* null pointer / None.                                                    *)
(***************************************************************************)
EXTENDS Integers, Sequences, FiniteSets, TLC

\* ------------------------------------------------------------------ bounds

\* Largest mNumberChannels of a buffer descriptor built on its own.
MaxChannels == 2

\* Number of callback boxes the caller thread may allocate in one behaviour.
MaxBoxes == 2

\* Largest frame count of a render call.
MaxFrames == 2

\* ------------------------------------------------------- bit arithmetic

RECURSIVE BitAnd(_, _)
BitAnd(a, b) ==
    IF a = 0 \/ b = 0 THEN 0
    ELSE (a % 2) * (b % 2) + 2 * BitAnd(a \div 2, b \div 2)

\* bitflags `contains`: every bit of `other` is set in `bits`.
Contains(bits, other) == BitAnd(bits, other) = other

\* ----------------------------------------------------------- ActionFlags

PRE_RENDER == 4
POST_RENDER == 8
OUTPUT_IS_SILENCE == 16
OFFLINE_PREFLIGHT == 32
OFFLINE_RENDER == 64
OFFLINE_COMPLETE == 128
POST_RENDER_ERROR == 256
DO_NOT_CHECK_RENDER_ARGS == 512

NamedFlags ==
    { PRE_RENDER, POST_RENDER, OUTPUT_IS_SILENCE, OFFLINE_PREFLIGHT,
      OFFLINE_RENDER, OFFLINE_COMPLETE, POST_RENDER_ERROR,
      DO_NOT_CHECK_RENDER_ARGS }

RECURSIVE SumOf(_)
SumOf(S) == IF S = {} THEN 0
            ELSE LET x == CHOOSE y \in S : TRUE IN x + SumOf(S \ {x})

\* ActionFlags::all().bits(): the union of the named flags.
ActionFlagsAll == SumOf(NamedFlags)

\* ActionFlags::empty()
ActionFlagsEmpty == 0

\* Option values: <<>> is None, <<x>> is Some(x).
None == <<>>
Some(x) == <<x>>

\* ActionFlags::from_bits (bitflags): None as soon as one bit of the word is
\* not a named flag, otherwise Some(word).
from_bits(word) ==
    IF word - BitAnd(word, ActionFlagsAll) # 0 THEN None ELSE Some(word)

unwrap_or_else(opt, dflt) == IF opt = None THEN dflt ELSE opt[1]

\* render_callback.rs:323-324
ParseFlags(word) == unwrap_or_else(from_bits(word), ActionFlagsEmpty)

\* ---------------------------------------------- stream format and samples

\* audio_format::linear_pcm_flags (LinearPCMFlags bits of StreamFormat.flags).
IS_FLOAT == 1
IS_SIGNED_INTEGER == 4
IS_PACKED == 8
IS_NON_INTERLEAVED == 32

\* The engine's possible stream formats, by their flags word.
StreamFormatFlags ==
    { IS_FLOAT + IS_PACKED,
      IS_SIGNED_INTEGER + IS_PACKED,
      IS_FLOAT + IS_PACKED + IS_NON_INTERLEAVED,
      IS_SIGNED_INTEGER + IS_PACKED + IS_NON_INTERLEAVED,
      IS_PACKED }

\* The Sample element types S and ::std::mem::size_of::<S>().
SampleFormats == { "F32", "I32", "I16", "I8" }

size_of(S) ==
    CASE S = "F32" -> 4
      [] S = "I32" -> 4
      [] S = "I16" -> 2
      [] S = "I8"  -> 1

\* SampleFormat::does_match_flags
does_match_flags(S, flags) ==
    LET is_float == Contains(flags, IS_FLOAT)
        is_signed_integer == Contains(flags, IS_SIGNED_INTEGER)
    IN  IF S = "F32" THEN is_float /\ ~is_signed_integer
        ELSE is_signed_integer /\ ~is_float

\* The buffer types B a callback can be registered with.
Custom == [kind |-> "Custom", sample |-> "none"]
LinearPcmInterleaved(S) == [kind |-> "Interleaved", sample |-> S]
LinearPcmNonInterleaved(S) == [kind |-> "NonInterleaved", sample |-> S]

BufferTypes ==
    {Custom} \cup { LinearPcmInterleaved(S) : S \in SampleFormats }
             \cup { LinearPcmNonInterleaved(S) : S \in SampleFormats }

\* The buffer types callbacks are registered with here.
RegisteredTypes ==
    {Custom} \cup { LinearPcmInterleaved(S) : S \in {"F32", "I16"} }
             \cup { LinearPcmNonInterleaved(S) : S \in {"F32", "I16"} }

NoBufferType == [kind |-> "none", sample |-> "none"]

\* A does_stream_format_match whose interleaved case does not look at
\* IS_NON_INTERLEAVED.
does_stream_format_match_any_layout(B, flags) ==
    CASE B.kind = "Custom" -> TRUE
      [] B.kind = "Interleaved" -> does_match_flags(B.sample, flags)
      [] B.kind = "NonInterleaved" ->
            Contains(flags, IS_NON_INTERLEAVED) /\ does_match_flags(B.sample, flags)

\* Buffer::does_stream_format_match for Custom, LinearPcm<&mut [S]> and
\* LinearPcm<NonInterleaved<S>>.
does_stream_format_match(B, flags) ==
    CASE B.kind = "Custom" -> TRUE
      [] B.kind = "Interleaved" ->
            ~Contains(flags, IS_NON_INTERLEAVED) /\ does_match_flags(B.sample, flags)
      [] B.kind = "NonInterleaved" ->
            Contains(flags, IS_NON_INTERLEAVED) /\ does_match_flags(B.sample, flags)

\* ------------------------------------------------------------------ state

Boxes == 1..MaxBoxes

VARIABLES
    maybe_callback,  \* AudioUnit.maybe_callback: 0 (None) or the box it owns
    engineCtx,       \* the engine's inputProcRefCon: 0 (none installed) or a box
    boxes,           \* the heap: per box its status, drop count and closure type
    streamFormat,    \* flags of the engine's current stream format
    pc,              \* position of the caller thread
    newPtr,          \* set_render_callback's input_proc_fn_wrapper_ptr
    call,            \* the caller thread's latest call: operation, result, pre-state
    rpc,             \* position of the render thread
    rbox,            \* in_ref_con of the render invocation in flight
    ret,             \* what the latest completed render invocation did
    probe            \* a buffer operation applied on its own: inputs and result

vars == <<maybe_callback, engineCtx, boxes, streamFormat, pc, newPtr, call,
          rpc, rbox, ret, probe>>

callerVars == <<maybe_callback, boxes, pc, newPtr, call>>
renderVars == <<rpc, rbox, ret>>

Unallocated == [status |-> "unalloc", drops |-> 0, B |-> NoBufferType]

NoCall ==
    [op |-> "none", result |-> "none", B |-> NoBufferType, queried |-> "no",
     new |-> 0, set_property |-> "not_called",
     pre_callback |-> 0, pre_ctx |-> 0, pre_boxes |-> [b \in Boxes |-> Unallocated]]

NoRet ==
    [outcome |-> "none", box |-> 0, status |-> 0, calls |-> 0, result |-> "none",
     word |-> 0, frames |-> 0, bus |-> 0, io_data |-> <<>>,
     word_after |-> 0, wrote |-> FALSE, data_written |-> FALSE,
     args |-> [buffer |-> [kind |-> "none"], flags |-> 0, bus_number |-> 0,
               num_frames |-> 0]]

NoProbe == [op |-> "none"]

Init ==
    /\ maybe_callback = 0
    /\ engineCtx = 0
    /\ boxes = [b \in Boxes |-> Unallocated]
    /\ streamFormat \in StreamFormatFlags
    /\ pc = "idle"
    /\ newPtr = 0
    /\ call = NoCall
    /\ rpc = "idle"
    /\ rbox = 0
    /\ ret = NoRet
    /\ probe = NoProbe

\* ------------------------------------------------------------- the heap

\* Box::new + Box::into_raw: the lowest unused address.
FreeBoxes == { b \in Boxes : boxes[b].status = "unalloc" }
BoxNew == CHOOSE b \in FreeBoxes : \A c \in FreeBoxes : b <= c

Allocate(bs, b, B) == [bs EXCEPT ![b] = [status |-> "live", drops |-> 0, B |-> B]]

\* Box::from_raw followed by the drop of the box: the count saturates at 2,
\* which stands for "released more than once".
DropBox(bs, b) ==
    [bs EXCEPT ![b].status = "released",
               ![b].drops = IF @ < 2 THEN @ + 1 ELSE @]

\* ----------------------------------------------------------- the engine

\* AudioUnitSetProperty(kAudioUnitProperty_SetRenderCallback) as reached through
\* AudioUnit::set_property: it serializes with render invocations, installs the
\* context when it succeeds and leaves it alone when it fails.
EngineSetRenderCallback(refcon, ok) ==
    /\ rpc = "idle"
    /\ engineCtx' = IF ok THEN refcon ELSE engineCtx

\* -------------------------------------------------- the caller's thread

free_render_callback_no_take(mc, bs) ==
    IF mc # 0 THEN [callback |-> mc, boxes |-> DropBox(bs, mc)]
    ELSE [callback |-> mc, boxes |-> bs]

free_render_callback_no_drop(mc, bs) == [callback |-> 0, boxes |-> bs]

\* AudioUnit::free_render_callback on (maybe_callback, heap): take() the
\* pointer and, if there was one, rebuild the Box and drop it.
free_render_callback(mc, bs) ==
    IF mc # 0 THEN [callback |-> 0, boxes |-> DropBox(bs, mc)]
    ELSE [callback |-> 0, boxes |-> bs]

Enter(op, B, queried) ==
    [op |-> op, result |-> "running", B |-> B, queried |-> queried,
     new |-> 0, set_property |-> "not_called",
     pre_callback |-> maybe_callback, pre_ctx |-> engineCtx, pre_boxes |-> boxes]

\* A set_render_callback that boxes the callback before it looks at the format.
SetRenderCallback_Begin_box_first(B, fmt_ok) ==
    /\ pc = "idle"
    /\ FreeBoxes # {}
    /\ boxes' = Allocate(boxes, BoxNew, B)
    /\ IF ~fmt_ok \/ ~does_stream_format_match(B, streamFormat)
       THEN /\ call' = [Enter("set", B, IF fmt_ok THEN "ok" ELSE "failed") EXCEPT
                           !.result = IF fmt_ok THEN "ErrFormatMismatch"
                                      ELSE "ErrStreamFormat"]
            /\ UNCHANGED <<pc, newPtr>>
       ELSE /\ newPtr' = BoxNew
            /\ call' = [Enter("set", B, "ok") EXCEPT !.new = BoxNew]
            /\ pc' = "set_property"
    /\ UNCHANGED <<maybe_callback, engineCtx, streamFormat, probe, renderVars>>

\* A set_render_callback that releases the previous box before it installs
\* the new one.
SetRenderCallback_Begin_free_first(B, fmt_ok) ==
    /\ pc = "idle"
    /\ IF ~fmt_ok
       THEN /\ call' = [Enter("set", B, "failed") EXCEPT !.result = "ErrStreamFormat"]
            /\ UNCHANGED <<boxes, pc, newPtr, maybe_callback>>
       ELSE IF ~does_stream_format_match(B, streamFormat)
       THEN /\ call' = [Enter("set", B, "ok") EXCEPT !.result = "ErrFormatMismatch"]
            /\ UNCHANGED <<boxes, pc, newPtr, maybe_callback>>
       ELSE /\ FreeBoxes # {}
            /\ LET freed == free_render_callback(maybe_callback, boxes)
               IN  /\ boxes' = Allocate(freed.boxes, BoxNew, B)
                   /\ maybe_callback' = freed.callback
            /\ newPtr' = BoxNew
            /\ call' = [Enter("set", B, "ok") EXCEPT !.new = BoxNew]
            /\ pc' = "set_property"
    /\ UNCHANGED <<engineCtx, streamFormat, probe, renderVars>>

\* A set_render_callback that does not compare B with the stream format.
SetRenderCallback_Begin_no_check(B, fmt_ok) ==
    /\ pc = "idle"
    /\ IF ~fmt_ok
       THEN /\ call' = [Enter("set", B, "failed") EXCEPT !.result = "ErrStreamFormat"]
            /\ UNCHANGED <<boxes, pc, newPtr>>
       ELSE /\ FreeBoxes # {}
            /\ boxes' = Allocate(boxes, BoxNew, B)
            /\ newPtr' = BoxNew
            /\ call' = [Enter("set", B, "ok") EXCEPT !.new = BoxNew]
            /\ pc' = "set_property"
    /\ UNCHANGED <<maybe_callback, engineCtx, streamFormat, probe, renderVars>>

\* set_render_callback up to the call of set_property: query the stream
\* format, check it against B, box the closure and leak the box to a raw
\* pointer.
SetRenderCallback_Begin(B, fmt_ok) ==
    /\ pc = "idle"
    /\ IF ~fmt_ok
       THEN /\ call' = [Enter("set", B, "failed") EXCEPT !.result = "ErrStreamFormat"]
            /\ UNCHANGED <<boxes, pc, newPtr>>
       ELSE IF ~does_stream_format_match(B, streamFormat)
       THEN /\ call' = [Enter("set", B, "ok") EXCEPT !.result = "ErrFormatMismatch"]
            /\ UNCHANGED <<boxes, pc, newPtr>>
       ELSE /\ FreeBoxes # {}
            /\ boxes' = Allocate(boxes, BoxNew, B)
            /\ newPtr' = BoxNew
            /\ call' = [Enter("set", B, "ok") EXCEPT !.new = BoxNew]
            /\ pc' = "set_property"
    /\ UNCHANGED <<maybe_callback, engineCtx, streamFormat, probe, renderVars>>

\* A set_render_callback that releases the previous box even when
\* set_property fails.
SetRenderCallback_SetProperty_free_on_error(ok) ==
    /\ pc = "set_property"
    /\ EngineSetRenderCallback(newPtr, ok)
    /\ IF ok
       THEN /\ pc' = "free_old"
            /\ call' = [call EXCEPT !.set_property = "ok"]
            /\ UNCHANGED <<newPtr, maybe_callback, boxes>>
       ELSE LET freed == free_render_callback(maybe_callback, boxes)
            IN  /\ pc' = "idle"
                /\ newPtr' = 0
                /\ maybe_callback' = freed.callback
                /\ boxes' = freed.boxes
                /\ call' = [call EXCEPT !.set_property = "failed",
                                        !.result = "ErrSetProperty"]
    /\ UNCHANGED <<streamFormat, probe, renderVars>>

\* A set_render_callback that goes on after set_property failed.
SetRenderCallback_SetProperty_ignore_error(ok) ==
    /\ pc = "set_property"
    /\ EngineSetRenderCallback(newPtr, ok)
    /\ pc' = "free_old"
    /\ call' = [call EXCEPT !.set_property = IF ok THEN "ok" ELSE "failed"]
    /\ UNCHANGED <<newPtr, maybe_callback, boxes, streamFormat, probe, renderVars>>

\* set_render_callback's try!(self.set_property(...)): on an error the
\* function returns at once, and the raw pointer is forgotten with the frame.
SetRenderCallback_SetProperty(ok) ==
    /\ pc = "set_property"
    /\ EngineSetRenderCallback(newPtr, ok)
    /\ IF ok
       THEN /\ pc' = "free_old"
            /\ call' = [call EXCEPT !.set_property = "ok"]
            /\ UNCHANGED newPtr
       ELSE /\ pc' = "idle"
            /\ newPtr' = 0
            /\ call' = [call EXCEPT !.set_property = "failed",
                                    !.result = "ErrSetProperty"]
    /\ UNCHANGED <<maybe_callback, boxes, streamFormat, probe, renderVars>>

\* set_render_callback after set_property succeeded: release the previous
\* box, remember the new one, return Ok(()).
SetRenderCallback_Finish ==
    /\ pc = "free_old"
    /\ LET freed == free_render_callback(maybe_callback, boxes)
       IN  boxes' = freed.boxes
    /\ maybe_callback' = newPtr
    /\ newPtr' = 0
    /\ pc' = "idle"
    /\ call' = [call EXCEPT !.result = "Ok"]
    /\ UNCHANGED <<engineCtx, streamFormat, probe, renderVars>>

\* A call of free_render_callback by the owner of the AudioUnit.
FreeRenderCallback ==
    /\ pc = "idle"
    /\ LET freed == free_render_callback(maybe_callback, boxes)
       IN  /\ maybe_callback' = freed.callback
           /\ boxes' = freed.boxes
    /\ call' = [Enter("free", NoBufferType, "no") EXCEPT !.result = "Done"]
    /\ UNCHANGED <<pc, newPtr, engineCtx, streamFormat, probe, renderVars>>

\* ------------------------------------------------- the render arguments

\* An au::AudioBuffer descriptor; mData is an abstract address.
AudioBuffer(ch, size, data) ==
    [mNumberChannels |-> ch, mDataByteSize |-> size, mData |-> data]

\* What a read of memory that holds no descriptor yields.
GarbageBuffer == [mNumberChannels |-> 0, mDataByteSize |-> 0, mData |-> 0]

\* The buffer lists the engine hands to the render call (mNumberBuffers is
\* the length of the sequence).
IoDataSamples ==
    { << AudioBuffer(1, 4, 1) >>,
      << AudioBuffer(2, 8, 1) >>,
      << AudioBuffer(2, 16, 1) >>,
      << AudioBuffer(1, 2, 1), AudioBuffer(1, 2, 2) >>,
      << AudioBuffer(1, 4, 1), AudioBuffer(1, 8, 2) >> }

\* The flag words the engine passes: named flags alone, together, and with
\* bits that name no flag.
FlagWords ==
    { 0, PRE_RENDER, OUTPUT_IS_SILENCE + POST_RENDER,
      1, OUTPUT_IS_SILENCE + 1, 1024 + PRE_RENDER + DO_NOT_CHECK_RENDER_ARGS }

Frames == 1..MaxFrames
BusNumbers == {0, 1}

\* The render calls the engine makes: every flag word with one buffer list,
\* and every buffer list with every frame count on either bus.
RenderCalls ==
    { [word |-> w, frames |-> 1, bus |-> 0, io |-> << AudioBuffer(1, 4, 1) >>]
        : w \in FlagWords }
    \cup
    { [word |-> OUTPUT_IS_SILENCE, frames |-> f, bus |-> 1 - (f % 2), io |-> io]
        : f \in Frames, io \in IoDataSamples }

\* Error::Unspecified.to_os_status()
UnspecifiedStatus == -1500

\* ------------------------------------------------------ buffer views

Panic == [kind |-> "panic"]

\* The slices over a local copy of the one-element mBuffers array that
\* NonInterleaved construction builds: each position holds the engine's
\* descriptor or whatever else the memory holds.
RECURSIVE LocalCopies(_)
LocalCopies(io) ==
    IF io = <<>> THEN { <<>> }
    ELSE { <<d>> \o t : d \in {Head(io), GarbageBuffer}, t \in LocalCopies(Tail(io)) }

\* A from_input_proc_args without the assertion on the byte size.
from_input_proc_args_unchecked(B, frames, io) ==
    CASE B.kind = "Custom" -> { [kind |-> "Custom", data |-> io] }
      [] B.kind = "Interleaved" ->
            { [kind |-> "Interleaved", ptr |-> io[1].mData,
               len |-> frames * io[1].mNumberChannels] }
      [] B.kind = "NonInterleaved" ->
            { [kind |-> "NonInterleaved", buffers |-> bufs, frames |-> frames]
                : bufs \in LocalCopies(io) }

\* Buffer::from_input_proc_args of B: the set of values the call can
\* produce, Panic when its assertion fails.
from_input_proc_args(B, frames, io) ==
    CASE B.kind = "Custom" -> { [kind |-> "Custom", data |-> io] }
      [] B.kind = "Interleaved" ->
            LET first == io[1]
                buffer_len == frames * first.mNumberChannels
                expected_size == size_of(B.sample) * buffer_len
            IN  IF first.mDataByteSize = expected_size
                THEN { [kind |-> "Interleaved", ptr |-> first.mData, len |-> buffer_len] }
                ELSE { Panic }
      [] B.kind = "NonInterleaved" ->
            { [kind |-> "NonInterleaved", buffers |-> bufs, frames |-> frames]
                : bufs \in LocalCopies(io) }

\* -------------------------------------------------------- the trampoline

to_status_always_ok(result) == 0

\* The match on the callback's result at the end of the closure.
to_status(result) == IF result = "Ok" THEN 0 ELSE UnspecifiedStatus

\* A closure that passes the frame count where the bus number belongs.
Returned_bus_from_frames(buffer, word, frames, bus, io, result, wrote) ==
    [outcome |-> "returned", box |-> 0, status |-> to_status(result), calls |-> 1,
     result |-> result, word |-> word, frames |-> frames, bus |-> bus,
     io_data |-> io, word_after |-> word, wrote |-> wrote, data_written |-> wrote,
     args |-> [buffer |-> buffer, flags |-> ParseFlags(word), bus_number |-> frames,
               num_frames |-> frames]]

\* The closure's normal completion: the Args it hands to the user's callback
\* and the status it returns.
Returned(buffer, word, frames, bus, io, result, wrote) ==
    [outcome |-> "returned", box |-> 0, status |-> to_status(result), calls |-> 1,
     result |-> result, word |-> word, frames |-> frames, bus |-> bus,
     io_data |-> io, word_after |-> word, wrote |-> wrote, data_written |-> wrote,
     args |-> [buffer |-> buffer, flags |-> ParseFlags(word), bus_number |-> bus,
               num_frames |-> frames]]

Panicked(word, frames, bus, io) ==
    [NoRet EXCEPT !.outcome = "panicked", !.word = word, !.frames = frames,
                  !.bus = bus, !.io_data = io, !.word_after = word]

\* The closure input_proc_fn built by set_render_callback for buffer type B:
\* build the buffer, parse the flags, call the user's callback (whose result
\* and whose writes to the audio data are the inputs `result` and `wrote`),
\* translate its result.
input_proc_fn(B, word, frames, bus, io, result, wrote) ==
    { IF buffer = Panic THEN Panicked(word, frames, bus, io)
      ELSE Returned(buffer, word, frames, bus, io, result, wrote)
        : buffer \in from_input_proc_args(B, frames, io) }

\* What a call through a released box can do.
Undefined(word, frames, bus, io) ==
    { [NoRet EXCEPT !.outcome = "undefined", !.status = st, !.word = word,
                    !.frames = frames, !.bus = bus, !.io_data = io,
                    !.word_after = word]
        : st \in {0, UnspecifiedStatus, 1} }

\* extern "C" fn input_proc: cast in_ref_con back to the wrapper and call
\* its closure.
input_proc(in_ref_con, word, frames, bus, io, result, wrote) ==
    { [r EXCEPT !.box = in_ref_con] :
        r \in IF boxes[in_ref_con].status = "live"
              THEN input_proc_fn(boxes[in_ref_con].B, word, frames, bus, io, result, wrote)
              ELSE Undefined(word, frames, bus, io) }

\* ------------------------------------------------- the render thread

\* The engine starts a render quantum: it calls inputProc with the
\* inputProcRefCon installed at that moment.
Render_Begin ==
    /\ rpc = "idle"
    /\ engineCtx # 0
    /\ rpc' = "in_call"
    /\ rbox' = engineCtx
    /\ ret' = NoRet
    /\ UNCHANGED <<callerVars, engineCtx, streamFormat, probe>>

\* input_proc runs and returns its status to the engine.
Render_Return ==
    /\ rpc = "in_call"
    /\ \E c \in RenderCalls, result \in {"Ok", "Err"}, wrote \in BOOLEAN :
            ret' \in input_proc(rbox, c.word, c.frames, c.bus, c.io, result, wrote)
    /\ rpc' = "idle"
    /\ rbox' = 0
    /\ UNCHANGED <<callerVars, engineCtx, streamFormat, probe>>

\* ------------------------------------- buffer operations on their own

\* The frame counts, descriptors and buffer lists the buffer operations are
\* applied to: every byte size up to the largest a descriptor can need.
ProbeFrames == 0..MaxFrames
ProbeByteSizes == 0..(4 * MaxFrames * MaxChannels)
ProbeIoData ==
    { << AudioBuffer(ch, size, data) >>
        : ch \in 1..MaxChannels, size \in ProbeByteSizes, data \in {1, 2} }
    \cup IoDataSamples

\* B::from_input_proc_args(frames, io_data) for any buffer type B.
Probe_Construct ==
    /\ probe.op = "none"
    /\ \E B \in BufferTypes, frames \in ProbeFrames, io \in ProbeIoData :
          \E buffer \in from_input_proc_args(B, frames, io) :
              probe' = [op |-> "construct", B |-> B, frames |-> frames, io |-> io,
                        buffer |-> buffer]
    /\ UNCHANGED <<callerVars, renderVars, engineCtx, streamFormat>>

\* Buffer::does_stream_format_match of Custom, of the interleaved and of the
\* non-interleaved buffer of one sample type, on one stream format.
ProbeFormatFlags == 0..127

Probe_Match ==
    /\ probe.op = "none"
    /\ \E S \in SampleFormats, flags \in ProbeFormatFlags :
          probe' = [op |-> "match", S |-> S, flags |-> flags,
                    custom |-> does_stream_format_match(Custom, flags),
                    interleaved |->
                        does_stream_format_match(LinearPcmInterleaved(S), flags),
                    non_interleaved |->
                        does_stream_format_match(LinearPcmNonInterleaved(S), flags)]
    /\ UNCHANGED <<callerVars, renderVars, engineCtx, streamFormat>>

\* NonInterleaved::channels and channels_mut: a fresh iterator over the
\* view's descriptors.
channels(view) ==
    [kind |-> "Channels", buffers |-> view.buffers, frames |-> view.frames]

channels_mut(view) ==
    [kind |-> "ChannelsMut", buffers |-> view.buffers, frames |-> view.frames]

Channels_next_len_frames(it) ==
    IF it.buffers = <<>> THEN [item |-> None, it |-> it]
    ELSE [item |-> Some([ptr |-> Head(it.buffers).mData, len |-> it.frames]),
          it |-> [it EXCEPT !.buffers = Tail(@)]]

\* Channels::next and ChannelsMut::next: advance the descriptor iterator and
\* map the descriptor to a slice of mNumberChannels * frames elements at
\* mData.
Channels_next(it) ==
    IF it.buffers = <<>> THEN [item |-> None, it |-> it]
    ELSE LET b == Head(it.buffers)
             len == b.mNumberChannels * it.frames
             ptr == b.mData
         IN  [item |-> Some([ptr |-> ptr, len |-> len]),
              it |-> [it EXCEPT !.buffers = Tail(@)]]

\* A call of channels() (or channels_mut() when `mutable`) on a view: the
\* one just constructed, or the one iterated before.
Probe_Channels(mutable) ==
    /\ \/ probe.op = "construct" /\ probe.buffer.kind = "NonInterleaved"
       \/ probe.op = "iterate" /\ probe.pass = 1
    /\ LET first == probe.op = "construct"
           view == IF first THEN probe.buffer ELSE probe.view
       IN  probe' = [op |-> "iterate", view |-> view,
                     it |-> IF mutable THEN channels_mut(view) ELSE channels(view),
                     yielded |-> <<>>, last |-> None, ended |-> FALSE,
                     after_end |-> FALSE,
                     pass |-> IF first THEN 1 ELSE 2,
                     previous |-> IF first THEN <<>> ELSE probe.yielded,
                     previous_done |-> ~first /\ probe.ended]
    /\ UNCHANGED <<callerVars, renderVars, engineCtx, streamFormat>>

\* A call of next() on the iterator, also once after it returned None.
Probe_ChannelsNext ==
    /\ probe.op = "iterate"
    /\ ~probe.after_end
    /\ LET r == Channels_next(probe.it)
       IN  probe' = [probe EXCEPT
                        !.it = r.it,
                        !.last = r.item,
                        !.yielded = IF r.item = None THEN @ ELSE Append(@, r.item[1]),
                        !.ended = r.item = None,
                        !.after_end = probe.ended]
    /\ UNCHANGED <<callerVars, renderVars, engineCtx, streamFormat>>

\* ------------------------------------------------------ specification

Next ==
    \/ \E B \in RegisteredTypes, fmt_ok \in BOOLEAN : SetRenderCallback_Begin(B, fmt_ok)
    \/ \E ok \in BOOLEAN : SetRenderCallback_SetProperty(ok)
    \/ SetRenderCallback_Finish
    \/ FreeRenderCallback
    \/ Render_Begin
    \/ Render_Return

Spec == Init /\ [][Next]_vars

\* The caller only ever replaces its registration (it makes no call of
\* free_render_callback of its own) while the engine renders.
NextReplace ==
    \/ \E B \in RegisteredTypes, fmt_ok \in BOOLEAN : SetRenderCallback_Begin(B, fmt_ok)
    \/ \E ok \in BOOLEAN : SetRenderCallback_SetProperty(ok)
    \/ SetRenderCallback_Finish
    \/ Render_Begin
    \/ Render_Return

SpecReplace == Init /\ [][NextReplace]_vars

\* The buffer operations applied on their own to all their inputs.
NextBuffers ==
    \/ Probe_Construct
    \/ Probe_Match
    \/ \E mutable \in BOOLEAN : Probe_Channels(mutable)
    \/ Probe_ChannelsNext

SpecBuffers == Init /\ [][NextBuffers]_vars

\* ------------------------------------------------------------ properties

\* The caller's latest call was a set_render_callback that has returned.
SetReturned == pc = "idle" /\ call.op = "set" /\ call.result # "running"

Live(b) == b # 0 /\ boxes[b].status = "live"
Released(b) == b # 0 /\ boxes[b].status = "released"

\* C1: after a successful set_render_callback on an AudioUnit that had a
\* registered callback, the previous box has been released exactly once, the
\* new box is live, and the engine's render context is the new box and no
\* other box.
C1_ReplaceReleasesPreviousOnce ==
    (SetReturned /\ call.result = "Ok" /\ call.pre_callback # 0) =>
        /\ call.pre_boxes[call.pre_callback].drops = 0
        /\ Released(call.pre_callback)
        /\ boxes[call.pre_callback].drops = 1
        /\ call.new # call.pre_callback
        /\ Live(call.new)
        /\ boxes[call.new].drops = 0
        /\ engineCtx = call.new
        /\ \A b \in Boxes \ {call.new} : engineCtx # b

C1_Witness ==
    /\ SetReturned /\ call.result = "Ok" /\ call.pre_callback # 0
    /\ call.pre_ctx = call.pre_callback

\* C2: the engine's installed render context never refers to a callback box
\* that has been released.
C2_EngineContextNeverReleased == engineCtx # 0 => ~Released(engineCtx)

\* C3: when set_property fails inside set_render_callback, the box allocated
\* by that call has been released by the time the error is returned.
C3_FailedInstallDropsNewBox ==
    (SetReturned /\ call.set_property = "failed") =>
        /\ call.result = "ErrSetProperty"
        /\ Released(call.new)

\* C4: when set_property fails inside set_render_callback, the error is
\* returned and the prior registration is unchanged: maybe_callback holds
\* what it held before the call, that box has not been released, and the
\* engine's context is what it was.
C4_FailedInstallKeepsRegistration ==
    (SetReturned /\ call.set_property = "failed") =>
        /\ call.result = "ErrSetProperty"
        /\ maybe_callback = call.pre_callback
        /\ call.pre_callback # 0 =>
              /\ Live(call.pre_callback)
              /\ boxes[call.pre_callback] = call.pre_boxes[call.pre_callback]
        /\ engineCtx = call.pre_ctx

C4_Witness ==
    /\ SetReturned /\ call.set_property = "failed"
    /\ call.pre_callback # 0
    /\ maybe_callback = call.pre_callback

\* The requested buffer type does not match the stream format the engine
\* reported to the caller's latest call.
Mismatched ==
    /\ call.op = "set" /\ call.queried = "ok"
    /\ CASE call.B.kind = "Custom" -> FALSE
         [] call.B.kind = "Interleaved" ->
               \/ Contains(streamFormat, IS_NON_INTERLEAVED)
               \/ ~does_match_flags(call.B.sample, streamFormat)
         [] call.B.kind = "NonInterleaved" ->
               \/ ~Contains(streamFormat, IS_NON_INTERLEAVED)
               \/ ~does_match_flags(call.B.sample, streamFormat)

\* C5: when the requested buffer type does not match the engine's stream
\* format, set_render_callback returns the format-mismatch error at once and
\* mutates nothing: no box is allocated, set_property is not invoked, and
\* maybe_callback, its box and the engine's context are as they were.
C5_MismatchMutatesNothing ==
    Mismatched =>
        /\ pc = "idle"
        /\ call.result = "ErrFormatMismatch"
        /\ call.new = 0
        /\ call.set_property = "not_called"
        /\ boxes = call.pre_boxes
        /\ maybe_callback = call.pre_callback
        /\ engineCtx = call.pre_ctx

C5_Witness ==
    /\ Mismatched
    /\ call.result = "ErrFormatMismatch"
    /\ Live(maybe_callback)

\* C6: free_render_callback is idempotent: on an AudioUnit with no
\* registered callback it changes nothing and releases nothing; on a
\* registered one it releases the box once and leaves the unit Unregistered.
\* It has no error to report.
C6_FreeIsIdempotent ==
    call.op = "free" =>
        /\ pc = "idle"
        /\ call.result = "Done"
        /\ maybe_callback = 0
        /\ engineCtx = call.pre_ctx
        /\ IF call.pre_callback = 0
           THEN boxes = call.pre_boxes
           ELSE /\ call.pre_boxes[call.pre_callback].status = "live"
                /\ boxes = [call.pre_boxes EXCEPT
                               ![call.pre_callback].status = "released",
                               ![call.pre_callback].drops = 1]

\* A second free_render_callback right after a first one that released a box.
C6_Witness ==
    /\ call.op = "free" /\ call.pre_callback = 0
    /\ \E b \in Boxes : call.pre_boxes[b].status = "released"
    /\ boxes = call.pre_boxes

\* The caller is inside, or has just returned from, a set_render_callback
\* that started with a callback registered.
Replacing == call.op = "set" /\ call.pre_callback # 0

\* C7: during a replacing set_render_callback the old box is released
\* strictly after set_property for the new box has succeeded: at every step
\* of the operation the engine's context refers to a live box, and the old
\* box is not released on a path where the install did not succeed.
C7_OldReleasedOnlyAfterInstall ==
    Replacing =>
        /\ Live(engineCtx)
        /\ pc \in {"set_property", "free_old"} => Live(call.pre_callback)
        /\ pc = "set_property" => engineCtx = call.pre_callback
        /\ pc = "free_old" => engineCtx = call.new
        /\ Released(call.pre_callback) =>
              call.set_property = "ok" /\ engineCtx = call.new
        /\ call.set_property # "ok" => Live(call.pre_callback)

C7_Witness ==
    /\ Replacing /\ pc = "free_old"
    /\ engineCtx = call.new /\ Live(call.pre_callback)

\* C8: with the render thread running concurrently with replacing
\* set_render_callback calls, and set_property serialized with render
\* invocations, no render invocation uses a box that has been released.
C8_RenderNeverUsesReleasedBox ==
    /\ rpc = "in_call" => Live(rbox)
    /\ ret.outcome # "undefined"

\* A render invocation is in flight on the new box while the caller, between
\* the install and the release, still holds the old box.
C8_Witness ==
    /\ Replacing /\ pc = "free_old"
    /\ rpc = "in_call" /\ rbox = call.new

\* C9: a render invocation in which the user's callback ran returns 0 if the
\* callback returned Ok(()) and the Error::Unspecified status if it returned
\* Err(()), and no other status; the flag word is left as it was and the
\* audio data is changed only by the callback's own writes.
C9_StatusTranslation ==
    ret.outcome = "returned" =>
        /\ ret.calls = 1
        /\ ret.result = "Ok" => ret.status = 0
        /\ ret.result = "Err" => ret.status = UnspecifiedStatus
        /\ ret.status \in {0, UnspecifiedStatus}
        /\ ret.word_after = ret.word
        /\ ret.data_written = ret.wrote

C9_Witness ==
    /\ ret.outcome = "returned" /\ ret.result = "Err"
    /\ ret.status = UnspecifiedStatus /\ ~ret.wrote

\* Bit k of a word.
Bit(word, k) == (word \div (2 ^ k)) % 2 = 1

\* C10: for every flag word, building ActionFlags does not abort the render
\* call, and the flag set delivered in Args holds exactly the named flags
\* whose bits are set in the word: bits that name no flag are excluded and
\* the named flags set in the same word are kept.
C10_FlagsKeepNamedBits ==
    /\ ret.outcome = "panicked" => boxes[ret.box].B.kind = "Interleaved"
    /\ ret.outcome = "returned" =>
          /\ \A k \in 0..30 :
                Bit(ret.args.flags, k) <=> (Bit(ret.word, k) /\ 2 ^ k \in NamedFlags)

\* C14: no callback box is ever released more than once, whatever calls of
\* set_render_callback and free_render_callback succeeded or failed, and
\* whenever maybe_callback is Some(p), p is allocated and not released.
C14_NoDoubleRelease ==
    /\ \A b \in Boxes :
          /\ boxes[b].drops <= 1
          /\ boxes[b].status = "released" <=> boxes[b].drops = 1
    /\ maybe_callback # 0 => Live(maybe_callback)

\* One box has been released by a replacement and the box that replaced it
\* is registered.
C14_Witness ==
    /\ pc = "idle" /\ Live(maybe_callback)
    /\ \E b \in Boxes : b # maybe_callback /\ boxes[b].drops = 1

\* C18: between calls of set_render_callback and free_render_callback, if
\* maybe_callback is Some(p) then the engine's installed render context is p:
\* the box the AudioUnit will release is the one the engine passes to the
\* trampoline.
C18_TrackedBoxIsEngineContext ==
    (pc = "idle" /\ maybe_callback # 0) => engineCtx = maybe_callback

\* A registration survived a set_render_callback that failed in
\* set_property after allocating another box.
C18_Witness ==
    /\ SetReturned /\ call.set_property = "failed" /\ call.new # 0
    /\ maybe_callback # 0 /\ engineCtx = maybe_callback

\* The closure type of box b passes the format check against the engine's
\* stream format.
PassedFormatCheck(b) == does_stream_format_match(boxes[b].B, streamFormat)

\* C16: a box is installed as the engine's render context only after, in the
\* same set_render_callback call, the stream format was queried and B's
\* does_stream_format_match returned true for it; so every box the
\* trampoline is invoked with belongs to a registration that passed the
\* check.
C16_InstalledOnlyAfterFormatCheck ==
    /\ pc \in {"set_property", "free_old"} =>
          /\ call.queried = "ok"
          /\ boxes[newPtr].B = call.B
          /\ PassedFormatCheck(newPtr)
    /\ engineCtx # 0 => PassedFormatCheck(engineCtx)
    /\ rpc = "in_call" => PassedFormatCheck(rbox)
    /\ ret.box # 0 => PassedFormatCheck(ret.box)
    /\ \A b \in Boxes : boxes[b].status # "unalloc" => PassedFormatCheck(b)

\* A render invocation has run on a typed (non-Custom) box while a
\* set_render_callback with a type that does not match was refused.
C16_Witness ==
    /\ ret.outcome = "returned" /\ boxes[ret.box].B.kind # "Custom"
    /\ Mismatched /\ call.result = "ErrFormatMismatch"
    /\ engineCtx = ret.box

\* The latest render invocation ran the closure of an interleaved callback
\* on a first buffer descriptor whose byte size is F * C * size_of(S).
InterleavedWellSized ==
    /\ ret.outcome \in {"returned", "panicked"}
    /\ boxes[ret.box].B.kind = "Interleaved"
    /\ ret.io_data[1].mDataByteSize =
          ret.frames * ret.io_data[1].mNumberChannels * size_of(boxes[ret.box].B.sample)

\* C15: a trampoline invocation on a registered interleaved callback whose
\* buffer descriptor has byte size F*C*size_of(S) invokes the user callback
\* exactly once, with a buffer view of length F*C, num_frames = F and
\* bus_number = the engine's bus index, and returns the translated status of
\* that invocation (0 when the callback succeeds).
C15_InterleavedRenderCall ==
    InterleavedWellSized =>
        /\ ret.outcome = "returned"
        /\ ret.calls = 1
        /\ ret.args.buffer.kind = "Interleaved"
        /\ ret.args.buffer.len = ret.frames * ret.io_data[1].mNumberChannels
        /\ ret.args.num_frames = ret.frames
        /\ ret.args.bus_number = ret.bus
        /\ ret.status = IF ret.result = "Ok" THEN 0 ELSE UnspecifiedStatus

\* Two frames of two f32 channels in 16 bytes on bus 1, callback succeeds.
C15_Witness ==
    /\ InterleavedWellSized
    /\ boxes[ret.box].B.sample = "F32"
    /\ ret.frames = 2 /\ ret.bus = 1 /\ ret.io_data[1].mDataByteSize = 16
    /\ ret.args.buffer.len = 4 /\ ret.result = "Ok" /\ ret.status = 0

\* C11: for all frame counts F, channel counts C and sample types S,
\* interleaved construction over a first descriptor of byte size
\* F*C*size_of(S) yields a slice of exactly F*C elements that starts at the
\* descriptor's data pointer; for any other byte size it fails its assertion
\* and yields no view.
C11_InterleavedConstruction ==
    (probe.op = "construct" /\ probe.B.kind = "Interleaved") =>
        LET d == probe.io[1]
            F == probe.frames
            C == d.mNumberChannels
        IN  IF d.mDataByteSize = F * C * size_of(probe.B.sample)
            THEN /\ probe.buffer.kind = "Interleaved"
                 /\ probe.buffer.len = F * C
                 /\ probe.buffer.ptr = d.mData
            ELSE probe.buffer = Panic

\* Two frames of two i16 channels in 8 bytes at address 2.
C11_Witness ==
    /\ probe.op = "construct" /\ probe.B = LinearPcmInterleaved("I16")
    /\ probe.frames = 2 /\ probe.io = << AudioBuffer(2, 8, 2) >>
    /\ probe.buffer = [kind |-> "Interleaved", ptr |-> 2, len |-> 4]

\* The same call on 7 bytes fails the assertion.
C11_WitnessPanic ==
    /\ probe.op = "construct" /\ probe.B = LinearPcmInterleaved("I16")
    /\ probe.frames = 2 /\ probe.io = << AudioBuffer(2, 7, 2) >>
    /\ probe.buffer = Panic

\* The slices a full iteration over a view owes: one per descriptor, in
\* descriptor order.
ExpectedSlices(view) ==
    [i \in 1..Len(view.buffers) |->
        [ptr |-> view.buffers[i].mData,
         len |-> view.buffers[i].mNumberChannels * view.frames]]

\* C12: for a non-interleaved view with C descriptors and frame count F,
\* channels() and channels_mut() yield exactly C slices, the i-th of length
\* mNumberChannels_i * F at descriptor i's data pointer, in descriptor order;
\* an exhausted iterator yields nothing more, and a second call of
\* channels()/channels_mut() on the view yields the same C slices again.
C12_ChannelIteration ==
    probe.op = "iterate" =>
        LET want == ExpectedSlices(probe.view)
            n == Len(probe.yielded)
        IN  /\ n <= Len(want)
            /\ probe.yielded = SubSeq(want, 1, n)
            /\ n + Len(probe.it.buffers) = Len(want)
            /\ probe.ended <=> (probe.last = None /\ n = Len(want))
            /\ probe.after_end => (probe.ended /\ probe.yielded = want)
            /\ (probe.pass = 2 /\ probe.ended /\ probe.previous_done) =>
                  probe.yielded = probe.previous

\* A second, mutable iteration over two descriptors of different sizes has
\* ended, after a first one that had ended too, and next() was called once
\* more.
C12_Witness ==
    /\ probe.op = "iterate" /\ probe.pass = 2 /\ probe.previous_done
    /\ probe.it.kind = "ChannelsMut"
    /\ probe.after_end
    /\ probe.view.frames = 2
    /\ probe.yielded = << [ptr |-> 1, len |-> 2], [ptr |-> 2, len |-> 2] >>

\* C13: for every stream format and sample type S, Custom matches; the
\* interleaved buffer matches iff IS_NON_INTERLEAVED is clear and S's sample
\* format matches the format flags; the non-interleaved buffer matches iff
\* IS_NON_INTERLEAVED is set and S's sample format matches; so the two never
\* both match one format.
C13_FormatMatch ==
    probe.op = "match" =>
        LET non_interleaved_format == Bit(probe.flags, 5)
            sample_matches == does_match_flags(probe.S, probe.flags)
        IN  /\ probe.custom
            /\ probe.interleaved <=> (~non_interleaved_format /\ sample_matches)
            /\ probe.non_interleaved <=> (non_interleaved_format /\ sample_matches)
            /\ ~(probe.interleaved /\ probe.non_interleaved)

\* i16 on a packed signed-integer non-interleaved format: the
\* non-interleaved buffer matches and the interleaved one does not.
C13_Witness ==
    /\ probe.op = "match" /\ probe.S = "I16"
    /\ probe.flags = IS_SIGNED_INTEGER + IS_PACKED + IS_NON_INTERLEAVED
    /\ probe.custom /\ probe.non_interleaved /\ ~probe.interleaved

\* C17: non-interleaved construction never fails, and for any buffer list
\* with N descriptors and any frame count F it produces a view over the
\* engine's N descriptors, in order, with frame count F, whatever their byte
\* sizes.
C17_NonInterleavedConstruction ==
    (probe.op = "construct" /\ probe.B.kind = "NonInterleaved") =>
        /\ probe.buffer.kind = "NonInterleaved"
        /\ probe.buffer.frames = probe.frames
        /\ probe.buffer.buffers = probe.io

====
